---- MODULE Spec2Model ----
(***************************************************************************)
(* A model of kilo (src/src/main.rs): the session of main / Editor::run,   *)
(* the raw-mode controller, the tab expansion of editor_open, the viewport *)
(* recomputation of editor_scroll, the cursor movement of                  *)
(* editor_move_cursor and the key decoder of editor_read_key.              *)
(*                                                                         *)
(* Characters and input bytes are their code points.  The rope is the flat *)
(* sequence of the file's characters; its lines are the maximal runs ended *)
(* by a newline, as ropey reports them (an empty rope has one line).       *)
(***************************************************************************)
EXTENDS Integers, Sequences, FiniteSets, TLC

(* ------------------------------ bounds -------------------------------- *)

\* the window sizes the terminal may report: 1..MaxRows x 1..MaxCols
MaxRows == 2
MaxCols == 3
\* the longest file of the tab-expansion specification
MaxLen == 4
\* the reads of one editor_read_key call that may time out before a byte comes
MaxPolls == 2

(* --------------------------- program constants ------------------------ *)

TAB_SIZE == 4
TAB == 9
NL == 10
SP == 32
ESC == 27
LBRACKET == 91
TILDE == 126
LETTER_O == 79
CTRL_MASK == 32
LETTER_Q == 113

\* ctrl_key(b) = b & 0b00011111
ctrl_key(b) == b % CTRL_MASK

(* ------------------------ terminal attribute sets --------------------- *)

None == [none |-> TRUE]

\* a terminal as a login shell leaves it
Cooked ==
  [iflag |-> {"BRKINT", "ICRNL", "IXON", "IUTF8"}, oflag |-> {"OPOST", "ONLCR"},
   lflag |-> {"ECHO", "ICANON", "IEXTEN", "ISIG"}, cflag |-> {"CREAD", "CS8"},
   vmin |-> 1, vtime |-> 0]

\* a terminal some program before this one left half configured
Odd ==
  [iflag |-> {"ISTRIP", "INPCK"}, oflag |-> {}, lflag |-> {"ICANON", "ISIG"},
   cflag |-> {"CREAD"}, vmin |-> 0, vtime |-> 1]

\* the modified copy enable_raw_mode derives from a termios
RawOf(t) ==
  [iflag |-> t.iflag \ {"BRKINT", "ICRNL", "INPCK", "ISTRIP", "IXON"},
   oflag |-> t.oflag \ {"OPOST"},
   lflag |-> t.lflag \ {"ECHO", "ICANON", "IEXTEN", "ISIG"},
   cflag |-> t.cflag \cup {"CS8"},
   vmin |-> 0, vtime |-> 1]

(* ------------------------------- the rope ----------------------------- *)

\* Rope::len_lines
LenLines(r) == Cardinality({p \in 1..Len(r) : r[p] = NL}) + 1

\* Rope::line_to_char: the 0-based index of the first character of line row
LineToChar(r, row) ==
  IF row = 0 THEN 0
  ELSE CHOOSE p \in 1..Len(r) :
         r[p] = NL /\ Cardinality({q \in 1..p : r[q] = NL}) = row

\* Rope::line: line row with its line break
Line(r, row) ==
  LET from == LineToChar(r, row)
      to == IF row + 1 < LenLines(r) THEN LineToChar(r, row + 1) ELSE Len(r)
  IN SubSeq(r, from + 1, to)

\* Rope::remove of the 0-based character range [from, to)
RopeRemove(r, from, to) == SubSeq(r, 1, from) \o SubSeq(r, to + 1, Len(r))

\* Rope::insert of text at the 0-based character index at
RopeInsert(r, at, text) == SubSeq(r, 1, at) \o text \o SubSeq(r, at + 1, Len(r))

\* " ".repeat(n)
Spaces(n) == [k \in 1..n |-> SP]

trim_newline(row) ==
  IF Len(row) > 0 /\ row[Len(row)] = NL THEN SubSeq(row, 1, Len(row) - 1) ELSE row

get_row(r, row) == trim_newline(Line(r, row))

row_len(r, row) == IF row < LenLines(r) THEN Len(get_row(r, row)) ELSE 0

Max(a, b) == IF a >= b THEN a ELSE b

(* ------------------------------ key events ---------------------------- *)

\* EditorKey: the nine plain variants, and Other(char)
KeyOf(t) == [tag |-> t]
Other(c) == [tag |-> "Other", ch |-> c]
NoKey == [tag |-> "None"]

IsDigit(b) == b >= 48 /\ b <= 57

\* a faulty DecodeCsiDigit: the arms for b'4' and b'8' are missing
DecodeCsiDigitNoEnd(d, b3) ==
  IF b3 = TILDE
  THEN CASE d = 49 -> KeyOf("Home")
         [] d = 51 -> KeyOf("Delete")
         [] d = 53 -> KeyOf("PageUp")
         [] d = 54 -> KeyOf("PageDown")
         [] d = 55 -> KeyOf("Home")
         [] OTHER -> Other(ESC)
  ELSE Other(ESC)

\* the arm for [b'[', b'0'..=b'9'] once the third byte b3 has been read
DecodeCsiDigit(d, b3) ==
  IF b3 = TILDE
  THEN CASE d = 49 -> KeyOf("Home")
         [] d = 51 -> KeyOf("Delete")
         [] d = 52 -> KeyOf("End")
         [] d = 53 -> KeyOf("PageUp")
         [] d = 54 -> KeyOf("PageDown")
         [] d = 55 -> KeyOf("Home")
         [] d = 56 -> KeyOf("End")
         [] OTHER -> Other(ESC)
  ELSE Other(ESC)

\* the other arms of the match on buf[..2]
DecodeTail(b1, b2) ==
  CASE b1 = LBRACKET /\ b2 = 65 -> KeyOf("ArrowUp")
    [] b1 = LBRACKET /\ b2 = 66 -> KeyOf("ArrowDown")
    [] b1 = LBRACKET /\ b2 = 67 -> KeyOf("ArrowRight")
    [] b1 = LBRACKET /\ b2 = 68 -> KeyOf("ArrowLeft")
    [] b1 = LBRACKET /\ b2 = 70 -> KeyOf("End")
    [] b1 = LBRACKET /\ b2 = 72 -> KeyOf("Home")
    [] b1 = LETTER_O /\ b2 = 70 -> KeyOf("End")
    [] b1 = LETTER_O /\ b2 = 72 -> KeyOf("Home")
    [] OTHER -> Other(ESC)

(* ------------------------------ the viewport -------------------------- *)

\* a faulty ScrollAxis: the + 1 of the scroll down is missing
ScrollAxisOffByOne(cur, off, extent) ==
  LET up == IF cur < off THEN cur ELSE off
  IN IF cur >= up + extent THEN cur - extent ELSE up

\* a faulty ScrollAxis: a cursor outside the window is put in its middle
ScrollAxisCentred(cur, off, extent) ==
  IF off <= cur /\ cur < off + extent THEN off
  ELSE Max(0, cur - extent \div 2)

\* editor_scroll on one axis: the new offset
ScrollAxis(cur, off, extent) ==
  LET up == IF cur < off THEN cur ELSE off
  IN IF cur >= up + extent THEN cur - extent + 1 ELSE up

(* ---------------------------- cursor movement ------------------------- *)

\* a faulty MoveMatch: PageDown goes down a page and stops at the last row
MoveMatchFullPage(k, r, row, col, rows, cols) ==
  CASE k.tag = "ArrowLeft" ->
         IF col > 0 THEN <<row, col - 1>>
         ELSE IF row > 0 THEN <<row - 1, row_len(r, row - 1)>>
         ELSE <<row, col>>
    [] k.tag = "ArrowRight" ->
         IF col < row_len(r, row) THEN <<row, col + 1>>
         ELSE IF row < Max(LenLines(r), rows) - 1 THEN <<row + 1, 0>>
         ELSE <<row, col>>
    [] k.tag = "ArrowUp" /\ row > 0 -> <<row - 1, col>>
    [] k.tag = "ArrowDown" /\ row < Max(LenLines(r), rows) - 1 -> <<row + 1, col>>
    [] k.tag = "PageUp" -> <<0, col>>
    [] k.tag = "PageDown" ->
         IF row + rows < Max(LenLines(r), rows) - 1 THEN <<row + rows, col>>
         ELSE <<Max(LenLines(r), rows) - 1, col>>
    [] k.tag = "Home" -> <<row, 0>>
    [] k.tag = "End" -> <<row, cols>>
    [] OTHER -> <<row, col>>

\* the match of editor_move_cursor: <<row, col>> before the clamp pass
MoveMatch(k, r, row, col, rows, cols) ==
  CASE k.tag = "ArrowLeft" ->
         IF col > 0 THEN <<row, col - 1>>
         ELSE IF row > 0 THEN <<row - 1, row_len(r, row - 1)>>
         ELSE <<row, col>>
    [] k.tag = "ArrowRight" ->
         IF col < row_len(r, row) THEN <<row, col + 1>>
         ELSE IF row < Max(LenLines(r), rows) - 1 THEN <<row + 1, 0>>
         ELSE <<row, col>>
    [] k.tag = "ArrowUp" /\ row > 0 -> <<row - 1, col>>
    [] k.tag = "ArrowDown" /\ row < Max(LenLines(r), rows) - 1 -> <<row + 1, col>>
    [] k.tag = "PageUp" -> <<0, col>>
    [] k.tag = "PageDown" -> <<rows, col>>
    [] k.tag = "Home" -> <<row, 0>>
    [] k.tag = "End" -> <<row, cols>>
    [] OTHER -> <<row, col>>

\* a faulty ClampCol: no clamp pass
ClampColNone(r, pos) == pos

\* the clamp pass that ends editor_move_cursor
ClampCol(r, pos) ==
  LET len == row_len(r, pos[1])
  IN IF pos[2] > len THEN <<pos[1], len>> ELSE pos

editor_move_cursor(k, r, row, col, rows, cols) ==
  ClampCol(r, MoveMatch(k, r, row, col, rows, cols))

(* ------------------------------- the output --------------------------- *)

\* the writes of a refresh, one token a write: the control sequences
\* ESC[?25l, ESC[H, ESC[K, \r\n, ESC[?25h and the flush
Tok(name) == [op |-> name]
\* a write of characters
Text(chars) == [op |-> "text", chars |-> chars]
\* ESC[row;colH
Pos(row, col) == [op |-> "pos", row |-> row, col |-> col]

\* "Kilo editor -- version 0.0.1"
Message ==
  <<75, 105, 108, 111, 32, 101, 100, 105, 116, 111, 114, 32, 45, 45, 32,
    118, 101, 114, 115, 105, 111, 110, 32, 48, 46, 48, 46, 49>>

Min(a, b) == IF a <= b THEN a ELSE b

\* a faulty BannerRow: the marker is written in front of all the padding
\* instead of in its first cell
BannerRowKeepPad(cols) ==
  <<Text(<<TILDE>>), Text(Spaces((cols - Min(Len(Message), cols)) \div 2)),
    Text(SubSeq(Message, 1, Min(Len(Message), cols)))>>

\* the welcome row of editor_draw_rows on a screen cols wide
BannerRow(cols) ==
  LET message == IF Len(Message) > cols THEN SubSeq(Message, 1, cols) ELSE Message
      padding == (cols - Len(message)) \div 2
  IN IF padding > 0
     THEN <<Text(<<TILDE>>), Text(Spaces(padding - 1) \o message)>>
     ELSE <<Text(Spaces(padding) \o message)>>

\* a faulty LineRow: the slice starts at the line's first character
LineRowFromZero(r, file_row, cols, coloff) ==
  LET line_slice == trim_newline(Line(r, file_row))
      col_len == Min(Len(line_slice) - Min(coloff, Len(line_slice)), cols)
  IN IF col_len > 0
     THEN <<Text(SubSeq(line_slice, 1, col_len))>>
     ELSE <<>>

\* the row of editor_draw_rows that shows line file_row of the rope
LineRow(r, file_row, cols, coloff) ==
  LET line_slice == trim_newline(Line(r, file_row))
      col_len == Min(Len(line_slice) - Min(coloff, Len(line_slice)), cols)
  IN IF col_len > 0
     THEN <<Text(SubSeq(line_slice, coloff + 1, coloff + col_len))>>
     ELSE <<>>

\* a faulty DrawRow: the last row too is followed by \r\n
DrawRowCrlfAlways(r, y, rows, cols, rowoff, coloff) ==
  LET file_row == y + rowoff
  IN <<Tok("erase")>>
     \o (IF Len(r) = 0 \/ file_row >= LenLines(r)
         THEN IF Len(r) = 0 /\ y = rows \div 3
              THEN BannerRow(cols)
              ELSE <<Text(<<TILDE>>)>>
         ELSE LineRow(r, file_row, cols, coloff))
     \o <<Tok("crlf")>>

\* one iteration of the for loop of editor_draw_rows: the writes of row y
DrawRow(r, y, rows, cols, rowoff, coloff) ==
  LET file_row == y + rowoff
  IN <<Tok("erase")>>
     \o (IF Len(r) = 0 \/ file_row >= LenLines(r)
         THEN IF Len(r) = 0 /\ y = rows \div 3
              THEN BannerRow(cols)
              ELSE <<Text(<<TILDE>>)>>
         ELSE LineRow(r, file_row, cols, coloff))
     \o (IF y < rows - 1 THEN <<Tok("crlf")>> ELSE <<>>)

\* editor_draw_rows from row y on
RECURSIVE DrawRowsFrom(_, _, _, _, _, _)
DrawRowsFrom(r, y, rows, cols, rowoff, coloff) ==
  IF y < rows
  THEN DrawRow(r, y, rows, cols, rowoff, coloff)
       \o DrawRowsFrom(r, y + 1, rows, cols, rowoff, coloff)
  ELSE <<>>

\* a faulty CursorPos: the position is written 0-based
CursorPosZeroBased(crow, ccol, rowoff, coloff) ==
  Pos(crow - rowoff, ccol - coloff)

\* the cursor-position write of editor_refresh_screen
CursorPos(crow, ccol, rowoff, coloff) ==
  Pos(crow - rowoff + 1, ccol - coloff + 1)

\* every write of editor_refresh_screen after editor_scroll, in order
RefreshWrites(r, rows, cols, crow, ccol, rowoff, coloff) ==
  <<Tok("hide"), Tok("home")>>
  \o DrawRowsFrom(r, 0, rows, cols, rowoff, coloff)
  \o <<CursorPos(crow, ccol, rowoff, coloff), Tok("show"), Tok("flush")>>

(* ------------------------------- the state ---------------------------- *)

VARIABLES
  pc,            \* where main / Editor::run stands
  term,          \* the terminal's attribute set
  winsize,       \* <<rows, cols>> the terminal reports
  file,          \* the command line's file: given, readable, text
  orig_termios, screen_rows, screen_cols,
  cursor_row, cursor_col, row_offset, col_offset, rope,   \* the Editor
  open,          \* locals of editor_open and editor_update_row
  buf,           \* the bytes editor_read_key has read, kept until the next refresh
  key,           \* the key event editor_read_key returned, kept until the next refresh
  last,          \* the last operation that ran
  captured,      \* the attribute set tcgetattr returned in Editor::new
  restoreArg,    \* the attribute set disable_raw_mode handed to tcsetattr
  nCapture, nEnter, nRestore,   \* successful tcgetattr, raw tcsetattr; restores tried
  errReported,   \* main printed "Error ..."
  loadResult,    \* "none", "ok" or "failed"
  looped,        \* the loop of Editor::run ran a refresh
  decoded,       \* editor_read_key returned a key event
  out,           \* the writes of the last editor_refresh_screen, kept until the next key
  polls,         \* the reads of the current editor_read_key call that timed out
  nGetattr,      \* calls of tcgetattr
  nFinal         \* calls of editor_refresh_screen by main, after run has returned

editor == <<orig_termios, screen_rows, screen_cols, rope>>
view == <<cursor_row, cursor_col, row_offset, col_offset>>
world == <<winsize, file>>
decoder == <<buf, key>>
ghost == <<captured, restoreArg, nCapture, nEnter, nRestore, errReported,
           loadResult, looped, decoded>>
extra == <<out, polls, nGetattr, nFinal>>
vars == <<pc, term, world, editor, view, open, decoder, last, ghost, extra>>

NoOpen == [rows |-> 0, row |-> 0, start |-> 0, i |-> 0]

NoFile == [given |-> FALSE, readable |-> FALSE, text |-> <<>>]
Missing == [given |-> TRUE, readable |-> FALSE, text |-> <<>>]
TextFile(t) == [given |-> TRUE, readable |-> TRUE, text |-> t]

\* "ab\na", "\tb\n" and "a\nabcd\n\nb"
SessionFiles ==
  {NoFile, Missing, TextFile(<<97, 98, NL, 97>>), TextFile(<<TAB, 98, NL>>),
   TextFile(<<97, NL, 97, 98, 99, 100, NL, NL, 98>>)}

\* Ctrl-Q, ESC, '[', 'O', A B C D F H, the digits, '~' and 'x'
AllBytes == {17, ESC, LBRACKET, LETTER_O, 65, 66, 67, 68, 70, 72, TILDE, 120}
            \cup 48..57
\* the bytes of the session specification: every key event, fewer spellings
SessionBytes == {17, ESC, LBRACKET, 65, 66, 67, 68, 70, 72, 51, 53, 54, TILDE, 120}

InitWith(terms, sizes, files) ==
  /\ pc = "new"
  /\ term \in terms
  /\ winsize \in sizes
  /\ file \in files
  /\ orig_termios = None
  /\ screen_rows = 0 /\ screen_cols = 0
  /\ cursor_row = 0 /\ cursor_col = 0 /\ row_offset = 0 /\ col_offset = 0
  /\ rope = <<>>
  /\ open = NoOpen
  /\ buf = <<>>
  /\ key = NoKey
  /\ last = "start"
  /\ captured = None /\ restoreArg = None
  /\ nCapture = 0 /\ nEnter = 0 /\ nRestore = 0
  /\ errReported = FALSE
  /\ loadResult = "none"
  /\ looped = FALSE
  /\ decoded = FALSE
  /\ out = <<>>
  /\ polls = 0
  /\ nGetattr = 0 /\ nFinal = 0

Init == InitWith({Cooked, Odd}, (1..MaxRows) \X (1..MaxCols), SessionFiles)

(* ------------------------------- startup ------------------------------ *)

\* a faulty EditorNew: a failed window-size query is ignored
EditorNewIgnoresSize ==
  /\ pc = "new"
  /\ nGetattr' = nGetattr + 1
  /\ UNCHANGED <<out, polls, nFinal>>
  /\ orig_termios' = term
  /\ screen_rows' = winsize[1] /\ screen_cols' = winsize[2]
  /\ cursor_row' = 0 /\ cursor_col' = 0 /\ row_offset' = 0 /\ col_offset' = 0
  /\ rope' = <<>>
  /\ captured' = term /\ nCapture' = nCapture + 1
  /\ pc' = "enable"
  /\ last' \in {"new", "winsize_failed"}
  /\ UNCHANGED <<term, world, open, decoder, restoreArg, nEnter, nRestore,
                 errReported, loadResult, looped, decoded>>

\* Editor::new, called by main: a failure ends the process at once
EditorNew ==
  /\ pc = "new"
  /\ nGetattr' = nGetattr + 1
  /\ UNCHANGED <<out, polls, nFinal>>
  /\ \/ \* tcgetattr fails
        /\ pc' = "exit_err" /\ last' = "tcgetattr_failed"
        /\ UNCHANGED <<term, world, editor, view, open, decoder, ghost>>
     \/ \* get_window_size fails
        /\ pc' = "exit_err" /\ last' = "winsize_failed"
        /\ UNCHANGED <<term, world, editor, view, open, decoder, ghost>>
     \/ /\ orig_termios' = term
        /\ screen_rows' = winsize[1] /\ screen_cols' = winsize[2]
        /\ cursor_row' = 0 /\ cursor_col' = 0 /\ row_offset' = 0 /\ col_offset' = 0
        /\ rope' = <<>>
        /\ captured' = term /\ nCapture' = nCapture + 1
        /\ pc' = "enable" /\ last' = "new"
        /\ UNCHANGED <<term, world, open, decoder, restoreArg, nEnter, nRestore,
                       errReported, loadResult, looped, decoded>>

\* a faulty SavedAfterEnable: the flags are cleared in self.orig_termios
SavedAfterEnableInPlace(orig) == RawOf(orig)

\* what enable_raw_mode leaves in self.orig_termios: it changes a clone
SavedAfterEnable(orig) == orig

\* enable_raw_mode, the first call of Editor::run
EnableRawMode ==
  /\ pc = "enable"
  /\ orig_termios' = SavedAfterEnable(orig_termios)
  /\ \/ /\ term' = RawOf(orig_termios)
        /\ nEnter' = nEnter + 1
        /\ pc' = "open" /\ last' = "enable"
     \/ \* tcsetattr fails: run returns the error
        /\ pc' = "report" /\ last' = "enable_failed"
        /\ UNCHANGED <<term, nEnter>>
  /\ UNCHANGED <<world, extra, screen_rows, screen_cols, rope, view, open, decoder,
                 captured, restoreArg, nCapture, nRestore, errReported,
                 loadResult, looped, decoded>>

(* ------------------------------- file i/o ----------------------------- *)

\* a faulty UpdateRowStep: one space too few is inserted
UpdateRowStepShort(r, start, row, i) ==
  IF Line(r, row)[i + 1] = TAB
  THEN [rope |-> RopeInsert(RopeRemove(r, start + i, start + i + 1),
                            start + i, Spaces(TAB_SIZE - 1)),
        i |-> i + 4]
  ELSE [rope |-> r, i |-> i + 1]

\* one iteration of the while loop of editor_update_row, at scan index i:
\* the rope and the index it leaves
UpdateRowStep(r, start, row, i) ==
  IF Line(r, row)[i + 1] = TAB
  THEN [rope |-> RopeInsert(RopeRemove(r, start + i, start + i + 1),
                            start + i, Spaces(TAB_SIZE)),
        i |-> i + 4]
  ELSE [rope |-> r, i |-> i + 1]

\* editor_update_row from scan index i on, run to its end
RECURSIVE UpdateRowFrom(_, _, _, _)
UpdateRowFrom(r, start, row, i) ==
  IF i < Len(Line(r, row))
  THEN LET s == UpdateRowStep(r, start, row, i)
       IN UpdateRowFrom(s.rope, start, row, s.i)
  ELSE r

\* the for loop of editor_open from row i on, over the rows counted before it
RECURSIVE UpdateRowsFrom(_, _, _)
UpdateRowsFrom(r, i, rows) ==
  IF i < rows
  THEN UpdateRowsFrom(UpdateRowFrom(r, LineToChar(r, i), i, 0), i + 1, rows)
  ELSE r

\* the expansion pass of editor_open over a whole rope
ExpandPass(r) == UpdateRowsFrom(r, 0, LenLines(r))

\* Editor::run after enable_raw_mode: the argument check, and the read of
\* editor_open
OpenFile ==
  /\ pc = "open"
  /\ \/ /\ ~file.given
        /\ pc' = "refresh" /\ last' = "no_file"
        /\ UNCHANGED <<rope, open, loadResult>>
     \/ \* File::open or Rope::from_reader fails: the rope is not assigned
        /\ file.given /\ ~file.readable
        /\ pc' = "report" /\ last' = "open_failed"
        /\ loadResult' = "failed"
        /\ UNCHANGED <<rope, open>>
     \/ /\ file.given /\ file.readable
        /\ rope' = file.text
        /\ open' = [rows |-> LenLines(file.text), row |-> 0, start |-> 0, i |-> 0]
        /\ pc' = "open_rows" /\ last' = "read_file"
        /\ UNCHANGED loadResult
  /\ UNCHANGED <<term, world, extra, orig_termios, screen_rows, screen_cols, view,
                 decoder, captured, restoreArg, nCapture, nEnter, nRestore,
                 errReported, looped, decoded>>

\* the for loop of editor_open: enter editor_update_row for the next row, or
\* return Ok
OpenNextRow ==
  /\ pc = "open_rows"
  /\ IF open.row < open.rows
     THEN /\ open' = [open EXCEPT !.start = LineToChar(rope, open.row), !.i = 0]
          /\ pc' = "update_row"
          /\ UNCHANGED <<last, loadResult>>
     ELSE /\ open' = NoOpen
          /\ pc' = "refresh" /\ last' = "open"
          /\ loadResult' = "ok"
  /\ UNCHANGED <<term, world, extra, editor, view, decoder, captured, restoreArg,
                 nCapture, nEnter, nRestore, errReported, looped, decoded>>

\* the while loop of editor_update_row: one iteration, or the return
UpdateRow ==
  /\ pc = "update_row"
  /\ IF open.i < Len(Line(rope, open.row))
     THEN LET s == UpdateRowStep(rope, open.start, open.row, open.i)
          IN /\ rope' = s.rope
             /\ open' = [open EXCEPT !.i = s.i]
             /\ pc' = "update_row"
     ELSE /\ open' = [open EXCEPT !.row = open.row + 1]
          /\ pc' = "open_rows"
          /\ UNCHANGED rope
  /\ UNCHANGED <<term, world, extra, orig_termios, screen_rows, screen_cols, view,
                 decoder, last, ghost>>

(* ------------------------------ the session --------------------------- *)

\* main's println!("Error {e}"), which panics when stdout cannot be written
ReportError ==
  /\ pc = "report"
  /\ \/ /\ errReported' = TRUE
        /\ pc' = "final_refresh"
     \/ /\ pc' = "panicked"
        /\ UNCHANGED errReported
  /\ last' = "report"
  /\ UNCHANGED <<term, world, extra, editor, view, open, decoder, captured, restoreArg,
                 nCapture, nEnter, nRestore, loadResult, looped, decoded>>

\* editor_scroll, the first statement of editor_refresh_screen
editor_scroll ==
  /\ row_offset' = ScrollAxis(cursor_row, row_offset, screen_rows)
  /\ col_offset' = ScrollAxis(cursor_col, col_offset, screen_cols)
  /\ UNCHANGED <<cursor_row, cursor_col>>

\* the writes editor_refresh_screen makes from the scrolled viewport
ScrolledWrites ==
  RefreshWrites(rope, screen_rows, screen_cols, cursor_row, cursor_col,
                ScrollAxis(cursor_row, row_offset, screen_rows),
                ScrollAxis(cursor_col, col_offset, screen_cols))

\* editor_refresh_screen: the scroll, then every write, or the writes up to
\* the first one that fails
editor_refresh_screen(ok) ==
  /\ editor_scroll
  /\ IF ok
     THEN out' = ScrolledWrites
     ELSE \E n \in 0..(Len(ScrolledWrites) - 1) : out' = SubSeq(ScrolledWrites, 1, n)

\* editor_refresh_screen in the loop of Editor::run: the scroll, then the
\* writes and the flush, any of which may fail
Refresh ==
  /\ pc = "refresh"
  /\ looped' = TRUE
  /\ last' = "refresh"
  /\ buf' = <<>> /\ key' = NoKey
  /\ \/ editor_refresh_screen(TRUE) /\ pc' = "read1"
     \/ \* a write or the flush fails: run returns the error
        editor_refresh_screen(FALSE) /\ pc' = "report"
  /\ UNCHANGED <<polls, nGetattr, nFinal>>
  /\ UNCHANGED <<term, world, editor, open, captured, restoreArg, nCapture,
                 nEnter, nRestore, errReported, loadResult, decoded>>

\* editor_process_keypress once editor_read_key has returned k
Deliver(k) ==
  /\ key' = k
  /\ decoded' = TRUE
  /\ out' = <<>> /\ polls' = 0
  /\ IF k.tag = "Other" /\ k.ch = ctrl_key(LETTER_Q)
     THEN /\ pc' = "final_refresh" /\ last' = "quit"
          /\ UNCHANGED view
     ELSE LET pos == editor_move_cursor(k, rope, cursor_row, cursor_col,
                                        screen_rows, screen_cols)
          IN /\ cursor_row' = pos[1] /\ cursor_col' = pos[2]
             /\ pc' = "refresh" /\ last' = "key"
             /\ UNCHANGED <<row_offset, col_offset>>

\* a faulty ShortReadKey: the unread byte of the buffer is returned
ShortReadKeyNul(c) == Other(0)

\* what editor_read_key returns when a read after ESC comes up short; c is
\* the first byte of the call
ShortReadKey(c) == Other(c)

\* a faulty TimedOut: the read that returned no byte returns the unread byte
\* as a key
TimedOutReturnsNul ==
  /\ UNCHANGED buf
  /\ Deliver(Other(0))

\* the first read of editor_read_key returns no byte: nothing is returned and
\* the loop reads again
TimedOut ==
  /\ polls < MaxPolls
  /\ polls' = polls + 1
  /\ UNCHANGED <<pc, view, decoder, last, decoded, out>>

\* a read of stdin fails inside editor_read_key
ReadFails ==
  /\ pc' = "report" /\ last' = "read_failed"
  /\ UNCHANGED <<view, decoder, decoded, out, polls>>

\* editor_read_key: the read of one byte at the top of its loop
ReadFirst(bytes) ==
  /\ pc = "read1"
  /\ \/ ReadFails
     \/ \* the read times out with no byte: the loop reads again
        TimedOut
     \/ \E b \in bytes :
          IF b = ESC
          THEN /\ buf' = <<b>>
               /\ pc' = "read2" /\ last' = "read"
               /\ polls' = 0
               /\ UNCHANGED <<view, key, decoded, out>>
          ELSE /\ buf' = <<b>>
               /\ Deliver(Other(b))
  /\ UNCHANGED <<nGetattr, nFinal>>
  /\ UNCHANGED <<term, world, editor, open, captured, restoreArg, nCapture,
                 nEnter, nRestore, errReported, loadResult, looped>>

\* editor_read_key after ESC: the read of up to two bytes into buf[..2]
ReadTail(bytes) ==
  /\ pc = "read2"
  /\ \/ ReadFails
     \/ /\ UNCHANGED buf
        /\ Deliver(ShortReadKey(buf[1]))
     \/ \E b1 \in bytes :
          /\ buf' = buf \o <<b1>>
          /\ Deliver(ShortReadKey(buf[1]))
     \/ \E b1 \in bytes, b2 \in bytes :
          /\ buf' = buf \o <<b1, b2>>
          /\ IF b1 = LBRACKET /\ IsDigit(b2)
             THEN /\ pc' = "read3" /\ last' = "read"
                  /\ UNCHANGED <<view, key, decoded, out, polls>>
             ELSE Deliver(DecodeTail(b1, b2))
  /\ UNCHANGED <<nGetattr, nFinal>>
  /\ UNCHANGED <<term, world, editor, open, captured, restoreArg, nCapture,
                 nEnter, nRestore, errReported, loadResult, looped>>

\* editor_read_key after ESC [ digit: the read of one byte into buf[2..]
ReadTilde(bytes) ==
  /\ pc = "read3"
  /\ \/ ReadFails
     \/ /\ UNCHANGED buf
        /\ Deliver(ShortReadKey(buf[1]))
     \/ \E b3 \in bytes :
          /\ buf' = buf \o <<b3>>
          /\ Deliver(DecodeCsiDigit(buf[3], b3))
  /\ UNCHANGED <<nGetattr, nFinal>>
  /\ UNCHANGED <<term, world, editor, open, captured, restoreArg, nCapture,
                 nEnter, nRestore, errReported, loadResult, looped>>

\* main's editor_refresh_screen()? after run has returned
FinalRefresh ==
  /\ pc = "final_refresh"
  /\ nFinal' = nFinal + 1
  /\ last' = "final_refresh"
  /\ buf' = <<>> /\ key' = NoKey
  /\ \/ editor_refresh_screen(TRUE) /\ pc' = "restore"
     \/ \* a write or the flush fails: main returns the error
        editor_refresh_screen(FALSE) /\ pc' = "exit_err"
  /\ UNCHANGED <<term, world, editor, open, ghost, polls, nGetattr>>

\* a faulty DisableRawMode: the restore is applied a second time
DisableRawModeAgain ==
  /\ pc = "restore"
  /\ restoreArg' = orig_termios
  /\ nRestore' = nRestore + 1
  /\ last' = "restore"
  /\ term' = orig_termios
  /\ pc' = IF nRestore = 0 THEN "restore" ELSE "done"
  /\ UNCHANGED <<world, extra, editor, view, open, decoder, captured, nCapture, nEnter,
                 errReported, loadResult, looped, decoded>>

\* main's disable_raw_mode()?
DisableRawMode ==
  /\ pc = "restore"
  /\ restoreArg' = orig_termios
  /\ nRestore' = nRestore + 1
  /\ last' = "restore"
  /\ \/ /\ term' = orig_termios
        /\ pc' = "done"
     \/ \* tcsetattr fails
        /\ pc' = "exit_err"
        /\ UNCHANGED term
  /\ UNCHANGED <<world, extra, editor, view, open, decoder, captured, nCapture, nEnter,
                 errReported, loadResult, looped, decoded>>

\* the process has ended
Ended == pc \in {"done", "exit_err", "panicked"}

Startup == EditorNew \/ EnableRawMode \/ OpenFile \/ OpenNextRow \/ UpdateRow
Shutdown == ReportError \/ FinalRefresh \/ DisableRawMode

Next ==
  \/ Startup
  \/ Refresh
  \/ ReadFirst(SessionBytes) \/ ReadTail(SessionBytes) \/ ReadTilde(SessionBytes)
  \/ Shutdown

Spec == Init /\ [][Next]_vars

(* ------------------ the key decoder on every byte sequence ------------ *)

\* a session on a 1 x 1 screen whose input may deliver any byte of AllBytes
InitKey == InitWith({Cooked}, {<<1, 1>>}, {NoFile, TextFile(<<97>>)})

NextKey ==
  \/ Startup
  \/ Refresh
  \/ ReadFirst(AllBytes) \/ ReadTail(AllBytes) \/ ReadTilde(AllBytes)
  \/ Shutdown

SpecKey == InitKey /\ [][NextKey]_vars

\* the decoder goes on while it has a step to take; a first read times out at
\* most MaxPolls times in a row before the input delivers a byte or fails
FairKey == SpecKey /\ WF_vars(NextKey)

(* --------------------- the tab expansion on every file ---------------- *)

TabChars == {TAB, NL, SP, 97}

\* every text of at most n characters
Texts(n) == UNION {[1..k -> TabChars] : k \in 0..n}

InitTab == InitWith({Cooked}, {<<1, 1>>}, {TextFile(t) : t \in Texts(MaxLen)})

NextTab == Startup

SpecTab == InitTab /\ [][NextTab]_vars

\* the program runs on while it has a step to take
FairTab == SpecTab /\ WF_vars(NextTab)

(* ------------------- the renderer on wide and tall screens ------------ *)

\* the tallest screen of the renderer's specification
MaxDrawRows == 4
\* its widest screen has this many columns more than the welcome message
MaxDrawPad == 4

\* widths below, at and above the length of the welcome message
DrawCols == (1..2) \cup {Len(Message) + d : d \in -1..MaxDrawPad}

\* Ctrl-Q and a letter
DrawBytes == {ctrl_key(LETTER_Q), 97}

\* no file, an empty file and a file of one character
InitDraw ==
  InitWith({Cooked}, (1..MaxDrawRows) \X DrawCols,
           {NoFile, TextFile(<<>>), TextFile(<<97>>)})

NextDraw ==
  \/ Startup
  \/ Refresh
  \/ ReadFirst(DrawBytes)
  \/ Shutdown

SpecDraw == InitDraw /\ [][NextDraw]_vars

(* =============================== claims =============================== *)

\* the length of line row as the claims count it: the characters after row
\* newlines that are not themselves a newline; 0 for a row past the last line
LineLength(r, row) ==
  Cardinality({p \in 1..Len(r) :
                 r[p] # NL /\ Cardinality({q \in 1..p : r[q] = NL}) = row})

LineCount(r) == Cardinality({p \in 1..Len(r) : r[p] = NL}) + 1

\* C1: on every exit path that begins after raw mode was entered, the
\* process does not end before the captured attribute set has been applied
\* to the terminal again.
C1_RestoredOnEveryExit ==
  (Ended /\ nEnter = 1) => (nRestore = 1 /\ restoreArg = captured)

\* C2: after every viewport recomputation, on a screen with rows > 0 and
\* cols > 0, the cursor lies inside the window on both axes.
C2_CursorInWindow ==
  (last \in {"refresh", "final_refresh"} /\ screen_rows > 0 /\ screen_cols > 0)
    => /\ row_offset <= cursor_row /\ cursor_row < row_offset + screen_rows
       /\ col_offset <= cursor_col /\ cursor_col < col_offset + screen_cols

\* the recomputation has scrolled down and right, in the loop
C2_Witness ==
  /\ last = "refresh" /\ pc = "read1"
  /\ row_offset > 0 /\ col_offset > 0
  /\ cursor_row = row_offset + screen_rows - 1
  /\ cursor_col = col_offset + screen_cols - 1

\* C3: after every cursor movement the cursor row stays within
\* [0, max(line_count, screen_rows) - 1].
C3_RowInRange ==
  last = "key" =>
    (0 <= cursor_row /\ cursor_row <= Max(LineCount(rope), screen_rows) - 1)

\* C4: after every cursor movement the cursor column is at most the length
\* of the line at the cursor row (0 past the last line, newline excluded).
C4_ColClamped ==
  last = "key" => cursor_col <= LineLength(rope, cursor_row)

\* End on a line shorter than the screen is wide: the clamp pass has cut the
\* column back from screen_cols to the line's length
C4_Witness ==
  /\ last = "key" /\ key = KeyOf("End")
  /\ LineLength(rope, cursor_row) > 0
  /\ LineLength(rope, cursor_row) < screen_cols
  /\ cursor_col = LineLength(rope, cursor_row)

\* the decode table of the claims, on the bytes one call consumed
TableKey(bs) ==
  IF bs[1] # ESC THEN Other(bs[1])
  ELSE IF Len(bs) = 3
  THEN CASE <<bs[2], bs[3]>> = <<91, 65>> -> KeyOf("ArrowUp")
         [] <<bs[2], bs[3]>> = <<91, 66>> -> KeyOf("ArrowDown")
         [] <<bs[2], bs[3]>> = <<91, 67>> -> KeyOf("ArrowRight")
         [] <<bs[2], bs[3]>> = <<91, 68>> -> KeyOf("ArrowLeft")
         [] <<bs[2], bs[3]>> \in {<<91, 72>>, <<79, 72>>} -> KeyOf("Home")
         [] <<bs[2], bs[3]>> \in {<<91, 70>>, <<79, 70>>} -> KeyOf("End")
         [] OTHER -> Other(27)
  ELSE CASE bs[4] = 126 /\ bs[3] \in {49, 55} -> KeyOf("Home")
         [] bs[4] = 126 /\ bs[3] = 51 -> KeyOf("Delete")
         [] bs[4] = 126 /\ bs[3] \in {52, 56} -> KeyOf("End")
         [] bs[4] = 126 /\ bs[3] = 53 -> KeyOf("PageUp")
         [] bs[4] = 126 /\ bs[3] = 54 -> KeyOf("PageDown")
         [] OTHER -> Other(27)

\* a call has returned a key event
KeyReturned == last \in {"key", "quit"}

\* every read of the call delivered all the bytes it asked for
FullyRead(bs) ==
  \/ Len(bs) = 1 /\ bs[1] # 27
  \/ Len(bs) = 3 /\ bs[1] = 27 /\ ~(bs[2] = 91 /\ bs[3] \in 48..57)
  \/ Len(bs) = 4 /\ bs[1] = 27 /\ bs[2] = 91 /\ bs[3] \in 48..57

\* C5: when every read of a decode call delivered the bytes it asked for,
\* the call returns exactly the event the table gives for those bytes.
C5_DecodeTable ==
  (KeyReturned /\ FullyRead(buf)) => key = TableKey(buf)

\* ESC [ 3 ~ has been decoded as Delete
C5_Witness ==
  /\ last = "key" /\ buf = <<27, 91, 51, 126>> /\ key = KeyOf("Delete")

\* the reads of the call came up short: fewer than two bytes after ESC, or no
\* byte after ESC [ digit
ShortRead(bs) ==
  /\ Len(bs) >= 1 /\ bs[1] = 27
  /\ \/ Len(bs) < 3
     \/ Len(bs) = 3 /\ bs[2] = 91 /\ bs[3] \in 48..57

\* C6: a short read after ESC makes the call return Other(ESC) as a normal
\* key event, with no error reported, and the loop goes on to its next
\* refresh.
C6_ShortReadIsEscape ==
  (KeyReturned /\ ShortRead(buf))
    => (key = Other(27) /\ pc = "refresh" /\ ~errReported)

\* ESC [ 5 and then a read that timed out
C6_Witness ==
  /\ buf = <<27, 91, 53>> /\ pc = "refresh" /\ last = "key" /\ key = Other(27)

\* the cursor after key k in the current state
After(k, pos) ==
  editor_move_cursor(k, rope, pos[1], pos[2], screen_rows, screen_cols)

\* ArrowLeft at column 0 of a row r > 0 lands on the end of row r - 1, and
\* ArrowRight then returns to (r, 0)
LeftThenRight ==
  (cursor_row > 0 /\ cursor_col = 0) =>
    LET p1 == After(KeyOf("ArrowLeft"), <<cursor_row, cursor_col>>)
    IN /\ p1 = <<cursor_row - 1, LineLength(rope, cursor_row - 1)>>
       /\ After(KeyOf("ArrowRight"), p1) = <<cursor_row, 0>>

\* ArrowRight at the end of a row r with more rows below lands on (r + 1, 0),
\* and ArrowLeft then returns to the end of row r
RightThenLeft ==
  (/\ cursor_col = LineLength(rope, cursor_row)
   /\ cursor_row < Max(LineCount(rope), screen_rows) - 1) =>
    LET p1 == After(KeyOf("ArrowRight"), <<cursor_row, cursor_col>>)
    IN /\ p1 = <<cursor_row + 1, 0>>
       /\ After(KeyOf("ArrowLeft"), p1) = <<cursor_row, LineLength(rope, cursor_row)>>

\* C7: in every reachable state of the loop, left and right wrap are exact
\* inverses at line boundaries.
C7_WrapInverse ==
  pc \in {"refresh", "read1"} => (LeftThenRight /\ RightThenLeft)

\* the half of C7 that starts with ArrowRight
C7_RightLeftOnly == pc \in {"refresh", "read1"} => RightThenLeft

\* the half of C7 that starts with ArrowLeft, from a row inside the range
C7_LeftRightInRange ==
  (pc \in {"refresh", "read1"}
   /\ cursor_row <= Max(LineCount(rope), screen_rows) - 1) => LeftThenRight

\* the text with every tab replaced by four spaces
RECURSIVE Expanded(_)
Expanded(t) ==
  IF t = <<>> THEN <<>>
  ELSE (IF Head(t) = 9 THEN <<32, 32, 32, 32>> ELSE <<Head(t)>>) \o Expanded(Tail(t))

TabCount(t) == Cardinality({p \in 1..Len(t) : t[p] = 9})

\* editor_open has returned Ok
Loaded == loadResult = "ok"

\* what the load leaves in the rope
TabsExpanded ==
  Loaded =>
    /\ rope = Expanded(file.text)
    /\ Len(rope) = Len(file.text) + 3 * TabCount(file.text)
    /\ TabCount(rope) = 0
    /\ ExpandPass(rope) = rope

\* C8: the tab expansion of a load terminates for every file, replaces each
\* tab by exactly four spaces and leaves every other character in place, and
\* a second pass over the result changes nothing.
C8_TabExpansion ==
  /\ []TabsExpanded
  /\ <>(pc \in {"refresh", "report", "exit_err"})

\* a file with two tabs on two lines has been loaded
C8_Witness ==
  /\ Loaded /\ TabCount(file.text) = 2 /\ LineCount(file.text) = 2
  /\ Len(rope) = Len(file.text) + 6

\* C9: the attribute set disable_raw_mode writes is the set captured at
\* startup: the saved snapshot is never changed after its capture, and a
\* restore that succeeds leaves the terminal with the captured set.
C9_RestoreIsCaptured ==
  /\ nCapture = 1 => orig_termios = captured
  /\ restoreArg # None => restoreArg = captured
  /\ pc = "done" => term = captured

\* a session that entered raw mode, failed to load its file and restored
C9_Witness ==
  /\ pc = "done" /\ nEnter = 1 /\ loadResult = "failed"
  /\ restoreArg = captured /\ term = captured /\ RawOf(captured) # captured

\* C10: when the load of the named file fails, the line buffer stays empty,
\* the loop is never entered and no key is decoded, the error is reported,
\* and the session goes through the final render to the restore.
C10_LoadFailure ==
  loadResult = "failed" =>
    /\ rope = <<>>
    /\ ~looped /\ ~decoded
    /\ pc # "report" => errReported
    /\ Ended => nRestore = 1

\* the parts of C10 that do not depend on the shutdown
C10_BufferAndLoop ==
  loadResult = "failed" => (rope = <<>> /\ ~looped /\ ~decoded)

\* a refresh or the final refresh has made every one of its writes, and no key
\* has been decoded since
Rendered ==
  \/ last = "refresh" /\ pc = "read1"
  \/ last = "final_refresh" /\ pc = "restore"

\* the positions in the writes o where a screen row starts
RowStarts(o) == {i \in 1..Len(o) : o[i].op = "erase"}

\* the position where screen row y (from 0) starts
RowStart(o, y) ==
  CHOOSE i \in RowStarts(o) : Cardinality({j \in RowStarts(o) : j < i}) = y

\* the characters written from position i on, up to the next control sequence
RECURSIVE TextFrom(_, _)
TextFrom(o, i) ==
  IF i > Len(o) \/ o[i].op # "text" THEN <<>>
  ELSE o[i].chars \o TextFrom(o, i + 1)

\* the cells of screen row y
RowCells(o, y) == TextFrom(o, RowStart(o, y) + 1)

\* the banner row the claim describes for a screen w wide
BannerCells(w) ==
  LET n == IF Len(Message) <= w THEN Len(Message) ELSE w
      padding == (w - n) \div 2
  IN [i \in 1..(padding + n) |->
        IF i = 1 /\ padding >= 1 THEN TILDE
        ELSE IF i <= padding THEN SP
        ELSE Message[i - padding]]

\* C11: with an empty buffer a render of an H x W screen draws exactly H
\* rows; every row but row H/3 is the marker '~'; row H/3 is the message cut
\* to W characters behind (W - its length)/2 padding cells, the first of them
\* '~'; the banner row is at most W cells.
C11_EmptyBufferRows ==
  (Rendered /\ Len(rope) = 0)
    => /\ Cardinality(RowStarts(out)) = screen_rows
       /\ \A y \in 0..(screen_rows - 1) :
            IF y = screen_rows \div 3
            THEN /\ RowCells(out, y) = BannerCells(screen_cols)
                 /\ Len(RowCells(out, y)) <= screen_cols
            ELSE RowCells(out, y) = <<TILDE>>

\* an empty file was rendered on a screen with two or more padding cells and
\* with marker rows around the banner row
C11_Witness ==
  /\ Rendered /\ Len(rope) = 0 /\ loadResult = "ok"
  /\ screen_rows > 3 /\ screen_cols > Len(Message) + 3
  /\ RowCells(out, 1)[2] = SP

\* C12, the loop's exit: a decoded Ctrl-Q ends the loop and leaves the cursor
\* and the viewport alone; every other decoded key goes on to the next render.
C12_QuitOnCtrlQ ==
  [][(pc \in {"read1", "read2", "read3"} /\ last' \in {"key", "quit"})
       => IF key' = Other(ctrl_key(LETTER_Q))
          THEN pc' = "final_refresh" /\ last' = "quit" /\ view' = view
          ELSE pc' = "refresh" /\ last' = "key"]_vars

\* C12: once the loop has ended, normally or by an error, the process makes
\* exactly one further render and then restores the terminal configuration,
\* in that order, before it ends.
C12_FinalRenderThenRestore ==
  (Ended /\ looped) => (nFinal = 1 /\ nRestore = 1 /\ last = "restore")

\* the calls on the terminal's attributes so far, counted and ordered
C13_Counts ==
  /\ nGetattr <= 1 /\ nCapture <= 1 /\ nEnter <= 1 /\ nRestore <= 1
  /\ pc # "new" => nGetattr = 1
  /\ last \notin {"start", "tcgetattr_failed", "winsize_failed"} => nCapture = 1
  /\ nEnter = 1 => nCapture = 1
  /\ nRestore = 1 => nCapture = 1

\* a render or a read of the key decoder leaves the terminal's attributes, the
\* saved copy and the counts alone; raw mode and the restore come after the
\* capture
C13_Step ==
  /\ pc \in {"refresh", "read1", "read2", "read3", "final_refresh"}
       => UNCHANGED <<term, orig_termios, captured, restoreArg, nGetattr,
                      nCapture, nEnter, nRestore>>
  /\ (nEnter' # nEnter \/ nRestore' # nRestore) => (nCapture = 1 /\ nCapture' = 1)

\* C13: in every run the attribute set is captured once, before raw mode is
\* entered; raw mode is entered at most once; the restore is applied at most
\* once and only after the capture; no key event and no render captures,
\* enters raw mode or restores.
C13_OnceEach == []C13_Counts /\ [][C13_Step]_vars

\* a session with keys and renders has ended with the restore applied
C13_Witness ==
  /\ pc = "done" /\ looped /\ decoded
  /\ nGetattr = 1 /\ nCapture = 1 /\ nEnter = 1 /\ nRestore = 1

\* the offset the minimal-scroll policy asks for on one axis
MinimalScroll(cur, off, extent, newoff) ==
  IF off <= cur /\ cur < off + extent THEN newoff = off
  ELSE IF cur < off THEN newoff = cur
  ELSE newoff = cur - extent + 1

\* a render step scrolls minimally on both axes and leaves the cursor alone
C14_Step ==
  pc \in {"refresh", "final_refresh"}
    => /\ MinimalScroll(cursor_row, row_offset, screen_rows, row_offset')
       /\ MinimalScroll(cursor_col, col_offset, screen_cols, col_offset')
       /\ UNCHANGED <<cursor_row, cursor_col>>

\* C14: a viewport recomputation leaves an offset alone when the cursor is
\* inside [offset, offset + extent); otherwise the new offset is the cursor
\* coordinate when the cursor was before the window and cursor - extent + 1
\* when it was past it; the cursor is never re-centred.
C14_MinimalScroll == [][C14_Step]_vars

\* the window has scrolled back up: the cursor, below the first line, is on the
\* first row of a window of two or more rows
C14_Witness ==
  /\ last = "refresh" /\ pc = "read1"
  /\ screen_rows > 1 /\ cursor_row > 0 /\ row_offset = cursor_row

\* the smaller of a column and the length of line row
ClampedTo(col, row) ==
  IF col <= LineLength(rope, row) THEN col ELSE LineLength(rope, row)

\* the step on which editor_process_keypress moves the cursor for the key the
\* decoder returned
KeyStep == pc \in {"read1", "read2", "read3"} /\ last' = "key"

\* what the four jump keys do to the cursor on that step
C15_Step ==
  KeyStep =>
    /\ key' = KeyOf("PageUp")
         => /\ cursor_row' = 0
            /\ cursor_col' = ClampedTo(cursor_col, 0)
    /\ key' = KeyOf("PageDown")
         => /\ cursor_row' = screen_rows
            /\ cursor_col' = ClampedTo(cursor_col, screen_rows)
    /\ key' = KeyOf("Home")
         => /\ cursor_col' = 0
            /\ cursor_row' = cursor_row
    /\ key' = KeyOf("End")
         => /\ MoveMatch(key', rope, cursor_row, cursor_col, screen_rows,
                         screen_cols) = <<cursor_row, screen_cols>>
            /\ cursor_col' = ClampedTo(screen_cols, cursor_row)
            /\ cursor_row' = cursor_row

\* C15: PageUp sets the cursor row to 0 and PageDown sets it to screen_rows,
\* whatever the current row and the number of lines; Home sets the column to
\* 0 and End sets it to screen_cols before the clamp pass, min(screen_cols,
\* length of the current line) after it; the other coordinate changes only
\* through the column clamp.
C15_JumpKeys == [][C15_Step]_vars

\* PageDown has put the cursor on row screen_rows, above the last line of the
\* buffer
C15_Witness ==
  /\ last = "key" /\ key = KeyOf("PageDown")
  /\ cursor_row = screen_rows
  /\ cursor_row < LineCount(rope) - 1

\* how many of the writes o are the control sequence name
CountOp(o, name) == Cardinality({i \in 1..Len(o) : o[i].op = name})

\* the writes of a row: its erase, its characters, its separator
RowOps == {"erase", "text", "crlf"}

\* the writes of a completed render, in the claim's order
C16_Order ==
  LET n == Len(out)
  IN /\ n >= 6
     /\ out[1] = Tok("hide") /\ out[2] = Tok("home")
     /\ out[3] = Tok("erase")
     /\ \A i \in 3..(n - 3) : out[i].op \in RowOps
     /\ CountOp(out, "erase") = screen_rows
     /\ CountOp(out, "crlf") = screen_rows - 1
     /\ \A i \in 3..(n - 3) : out[i].op = "crlf" => (i < n - 3 /\ out[i + 1].op = "erase")
     /\ \A i \in 4..(n - 3) : out[i].op = "erase" => out[i - 1].op = "crlf"
     /\ out[n - 2] = Pos(cursor_row - row_offset + 1, cursor_col - col_offset + 1)
     /\ out[n - 1] = Tok("show")
     /\ out[n] = Tok("flush")

\* in the writes made so far, of a render that completed or failed, the cursor
\* is shown only after it was hidden and every row was drawn
C16_ShownLast ==
  \A i \in 1..Len(out) :
    out[i].op = "show"
      => /\ out[1].op = "hide"
         /\ Cardinality({j \in 1..i : out[j].op = "erase"}) = screen_rows
         /\ \A j \in i..Len(out) : out[j].op \notin RowOps

\* C16: a refresh scrolls first, then writes hide (ESC[?25l), home (ESC[H),
\* screen_rows rows each started by ESC[K with \r\n after every row but the
\* last (screen_rows - 1 separators), the cursor position computed from the
\* scrolled offsets, show (ESC[?25h), and flushes once; the cursor is never
\* shown between the hide and the last row.
C16_RefreshOrder == (Rendered => C16_Order) /\ C16_ShownLast

\* a render of a loaded file on a screen of several rows, scrolled down
C16_Witness ==
  /\ Rendered /\ last = "refresh"
  /\ screen_rows > 1 /\ row_offset > 0 /\ Len(rope) > 0
  /\ CountOp(out, "crlf") > 0

\* the positions in r of the characters of line row, its newline left out
LinePositions(r, row) ==
  {p \in 1..Len(r) : r[p] # NL /\ Cardinality({q \in 1..p : r[q] = NL}) = row}

\* character c (from 0) of line row
LineChar(r, row, c) ==
  r[CHOOSE p \in LinePositions(r, row) :
      Cardinality({q \in LinePositions(r, row) : q < p}) = c]

\* the characters of line row at the columns [from, to)
LineColumns(r, row, from, to) ==
  [i \in 1..(IF to > from THEN to - from ELSE 0) |-> LineChar(r, row, from + i - 1)]

\* C17: with a non-empty buffer, a screen row y whose file row y + row_offset
\* is below the line count shows exactly the characters of that line, newline
\* stripped, at the columns [col_offset, min(length, col_offset +
\* screen_cols)): at most screen_cols characters, none when col_offset is at
\* or past the line's length, and never a column past the line's length.
C17_LineSlice ==
  (Rendered /\ Len(rope) > 0)
    => \A y \in 0..(screen_rows - 1) :
         LET file_row == y + row_offset
             len == LineLength(rope, file_row)
             cells == RowCells(out, y)
         IN file_row < LineCount(rope)
              => /\ cells = LineColumns(rope, file_row, col_offset,
                                        Min(len, col_offset + screen_cols))
                 /\ Len(cells) <= screen_cols
                 /\ col_offset >= len => cells = <<>>
                 /\ Len(cells) > 0 => col_offset + Len(cells) <= len

\* a line longer than the screen is wide is shown scrolled right, next to a
\* line that ends left of the window
C17_Witness ==
  /\ Rendered /\ Len(rope) > 0 /\ col_offset > 0 /\ screen_rows > 1
  /\ row_offset + 1 < LineCount(rope)
  /\ \E y \in 0..1 :
       /\ LineLength(rope, row_offset + y) > col_offset
       /\ Len(RowCells(out, y)) = screen_cols
       /\ LineLength(rope, row_offset + 1 - y) <= col_offset
       /\ RowCells(out, 1 - y) = <<>>

\* the attribute query or the window-size query of Editor::new has failed
StartupFailed == last \in {"tcgetattr_failed", "winsize_failed"}

\* C18: when tcgetattr or the window-size query fails at startup the session
\* ends before raw mode: the raw attribute set is not applied, no file is
\* loaded, nothing is rendered, no key is decoded and no restore is attempted.
C18_StartupFailure ==
  StartupFailed
    => /\ pc = "exit_err"
       /\ nEnter = 0 /\ term \in {Cooked, Odd}
       /\ loadResult = "none" /\ open = NoOpen /\ rope = <<>>
       /\ ~looped /\ nFinal = 0 /\ out = <<>>
       /\ ~decoded /\ buf = <<>> /\ key = NoKey
       /\ nRestore = 0 /\ restoreArg = None

\* the window-size query failed for a session that was given a file
C18_Witness ==
  /\ last = "winsize_failed" /\ Ended
  /\ file # NoFile /\ nGetattr = 1

\* the cursor-position writes among the writes made so far put the cursor on
\* the screen, and their subtractions are of an offset from a cursor at or
\* after it
C19_Pos ==
  \A i \in 1..Len(out) :
    out[i].op = "pos"
      => /\ screen_rows > 0 /\ screen_cols > 0
         /\ cursor_row >= row_offset /\ cursor_col >= col_offset
         /\ out[i].row = cursor_row - row_offset + 1
         /\ out[i].col = cursor_col - col_offset + 1
         /\ out[i].row \in 1..screen_rows
         /\ out[i].col \in 1..screen_cols

\* editor_scroll subtracts the extent from the cursor only when the cursor is
\* at or past the extent
ScrollSafe(cur, off, extent) ==
  LET up == IF cur < off THEN cur ELSE off
  IN cur >= up + extent => cur - extent >= 0

\* the subtractions of one render step
C19_Step ==
  pc \in {"refresh", "final_refresh"}
    => /\ ScrollSafe(cursor_row, row_offset, screen_rows)
       /\ ScrollSafe(cursor_col, col_offset, screen_cols)
       /\ cursor_row - row_offset' >= 0
       /\ cursor_col - col_offset' >= 0

\* C19: in every refresh, after any keys, for any buffer and any screen with
\* rows > 0 and cols > 0, the cursor-position sequence has row = cursor_row -
\* row_offset + 1 in [1, screen_rows] and column = cursor_col - col_offset + 1
\* in [1, screen_cols]; neither subtraction, nor cursor - extent + 1 in the
\* scroll, goes below zero.
C19_CursorOnScreen == []C19_Pos /\ [][C19_Step]_vars

\* after scrolling down and right and back left, the position written is the
\* last row and the first column of the screen
C19_Witness ==
  /\ Rendered /\ decoded
  /\ row_offset > 0 /\ col_offset > 0 /\ screen_rows > 1
  /\ out[Len(out) - 2] = Pos(screen_rows, 1)

\* editor_read_key has been called and has not returned
InDecode == pc \in {"read1", "read2", "read3"}

\* one step of a decode call: a key is returned only with one to four bytes
\* read, and one key a call; a first read that returns no byte returns no
\* key, leaves the cursor and the viewport alone and stays in the call
C20_Step ==
  /\ (InDecode /\ last' \in {"key", "quit"})
       => /\ Len(buf') \in 1..4
          /\ key = NoKey /\ key' # NoKey
          /\ ~InDecode'
  /\ (InDecode /\ polls' > polls)
       => /\ pc = "read1" /\ pc' = "read1"
          /\ buf = <<>> /\ key' = NoKey
          /\ UNCHANGED <<view, decoder, decoded, last, term>>

\* C20: a decode call returns a key only after it has read a byte; a read of
\* zero bytes returns no key, changes no cursor or viewport state and is
\* retried, the session staying in its loop; when the input delivers a byte
\* the call returns one key, having read at most four bytes (or the error of a
\* failed read).
C20_DecodeCall ==
  /\ [][C20_Step]_vars
  /\ InDecode ~> (KeyReturned \/ last = "read_failed")

\* the first read of a later decode call has timed out more than once: no key
\* yet, and the call goes on
C20_Witness ==
  /\ pc = "read1" /\ polls > 1
  /\ decoded /\ key = NoKey /\ buf = <<>>

====
